---- MODULE Spec2Model ----
(***************************************************************************)
(* Model of folder_sync.py: a one-directional, periodic folder mirror.     *)
(*                                                                         *)
(* The file system is two trees, "source" and "replica", over a fixed set  *)
(* of relative paths.  The two roots are assumed to be disjoint folders.   *)
(* Every file system call of the program may fail with an OSError; the     *)
(* number of such injected failures in one run is bounded by MaxFail.      *)
(* The digest of calculate_hash is taken to be collision free on the       *)
(* contents of the model.                                                  *)
(***************************************************************************)
EXTENDS Integers, Sequences, FiniteSets, TLC

\* ------------------------------------------------------------ bounds
\* number of distinct file contents the initial trees draw from
NContents == 2
\* the cycle counter saturates at this value (the loop itself never ends)
MaxCycles == 2
\* number of injected file system failures in one run
MaxFail == 1
\* the interval argument is drawn from 1 .. MaxInterval (minutes)
MaxInterval == 2

\* ------------------------------------------------------------ file system
\* relative paths of the model: a, d, d/b under a root
Paths == { <<>>, <<"a">>, <<"d">>, <<"d", "b">> }

Parent(p) == SubSeq(p, 1, Len(p) - 1)

Children(p) == { q \in Paths : Len(q) = Len(p) + 1 /\ Parent(q) = p }

Contents == 1 .. NContents

\* the content of a file whose copy stopped after the destination was truncated
PartialData == 0

NoNode == [kind |-> "none", data |-> 0]

DirNode == [kind |-> "dir", data |-> 0]

FileNode(c) == [kind |-> "file", data |-> c]

Nodes == { NoNode, DirNode } \cup { FileNode(c) : c \in Contents }

\* a tree is well formed when every entry lies in a directory
WellFormed(t) == \A p \in Paths \ { <<>> } : t[p].kind # "none" => t[Parent(p)].kind = "dir"

Trees == { t \in [Paths -> Nodes] : WellFormed(t) }

Sides == { "source", "replica" }

\* the files of a tree: relative path -> content
FileMap(t) == { <<p, t[p].data>> : p \in { q \in Paths : t[q].kind = "file" } }

Dirs(t) == { p \in Paths : t[p].kind = "dir" }

\* all orders in which a directory listing can return the entries S
Orders(S) == { s \in [1 .. Cardinality(S) -> S] : \A i, j \in 1 .. Cardinality(S) : s[i] = s[j] => i = j }

VARIABLES pc, fs, stack, files, log, printed, calls, errs, cycle, fails, prevFailed, fs0, fsStart, interval, slept, changed

vars == <<pc, fs, stack, files, log, printed, calls, errs, cycle, fails, prevFailed, fs0, fsStart, interval, slept, changed>>

\* ------------------------------------------------------------ path helpers
\* os.path.join(source_folder, relative_path)
source_path(p) == <<"source", p>>

\* os.path.join(replica_folder, relative_path)
replica_path(p) == <<"replica", p>>

\* os.path.dirname
dirname(sp) == <<sp[1], Parent(sp[2])>>

node(fsys, sp) == fsys[sp[1]][sp[2]]

put(fsys, sp, n) == [fsys EXCEPT ![sp[1]][sp[2]] = n]

\* os.path.exists
exists(fsys, sp) == node(fsys, sp).kind # "none"

\* ------------------------------------------------------------ events
CopiedEvent(p) == [kind |-> "Copied", arg |-> p]

DeletedEvent(p) == [kind |-> "Deleted", arg |-> p]

\* logging.error of the except clause of function fn
ErrorEvent(fn) == [kind |-> "Error", arg |-> <<fn>>]

CompletedEvent == [kind |-> "Completed", arg |-> <<>>]

\* ------------------------------------------------------------ injected failures
CopyFaults == { "makedirs", "hash_source", "hash_replica", "copy_open", "copy_write", "copy_stat" }

RemoveFaults == { "remove" }

\* ------------------------------------------------------------ pure operations
\* hashlib digest of a content (collision free on Contents)
md5(c) == <<"md5", c>>

\* calculate_hash: open() raises on a directory or a missing file
calculate_hash(fsys, sp, inject) ==
  IF node(fsys, sp).kind # "file" THEN [raised |-> TRUE, hit |-> FALSE, digest |-> <<>>]
  ELSE IF inject THEN [raised |-> TRUE, hit |-> TRUE, digest |-> <<>>]
  ELSE [raised |-> FALSE, hit |-> FALSE, digest |-> md5(node(fsys, sp).data)]

\* a comparison that always reports a difference
are_files_different_always(fsys, s, r, fault) ==
  LET sh == calculate_hash(fsys, s, fault = "hash_source") IN
  IF sh.raised THEN [raised |-> TRUE, hit |-> sh.hit, value |-> FALSE]
  ELSE LET rh == calculate_hash(fsys, r, fault = "hash_replica") IN
       IF rh.raised THEN [raised |-> TRUE, hit |-> rh.hit, value |-> FALSE]
       ELSE [raised |-> FALSE, hit |-> FALSE, value |-> TRUE]

are_files_different(fsys, s, r, fault) ==
  LET sh == calculate_hash(fsys, s, fault = "hash_source") IN
  IF sh.raised THEN [raised |-> TRUE, hit |-> sh.hit, value |-> FALSE]
  ELSE LET rh == calculate_hash(fsys, r, fault = "hash_replica") IN
       IF rh.raised THEN [raised |-> TRUE, hit |-> rh.hit, value |-> FALSE]
       ELSE [raised |-> FALSE, hit |-> FALSE, value |-> sh.digest # rh.digest]

\* os.makedirs(sp, exist_ok=True): creates the missing ancestors, then sp;
\* raises when sp or an ancestor is a file.  An injected failure can only
\* strike a mkdir that has something to create.
RECURSIVE makedirs(_, _, _)
makedirs(fsys, sp, inject) ==
  IF node(fsys, sp).kind = "dir" THEN [fs |-> fsys, raised |-> FALSE, hit |-> FALSE]
  ELSE IF node(fsys, sp).kind = "file" THEN [fs |-> fsys, raised |-> TRUE, hit |-> FALSE]
  ELSE IF inject THEN [fs |-> fsys, raised |-> TRUE, hit |-> TRUE]
  ELSE IF sp[2] = <<>> THEN [fs |-> put(fsys, sp, DirNode), raised |-> FALSE, hit |-> FALSE]
  ELSE LET up == makedirs(fsys, dirname(sp), FALSE) IN
       IF up.raised THEN up
       ELSE [fs |-> put(up.fs, sp, DirNode), raised |-> FALSE, hit |-> FALSE]

\* a copy with its arguments exchanged: the replica file overwrites the source
copy2_swapped(fsys, s, r, fault) ==
  IF node(fsys, r).kind # "file"
  THEN [fs |-> put(fsys, r, node(fsys, s)), raised |-> FALSE, hit |-> FALSE]
  ELSE [fs |-> put(fsys, s, node(fsys, r)), raised |-> FALSE, hit |-> FALSE]

\* shutil.copy2(s, r): copyfile then copystat.  r is a file or missing here;
\* a destination that is a directory would receive the file under a path
\* outside Paths and is modelled as a failure.
copy2(fsys, s, r, fault) ==
  IF node(fsys, s).kind # "file" \/ node(fsys, r).kind = "dir" \/ node(fsys, dirname(r)).kind # "dir"
  THEN [fs |-> fsys, raised |-> TRUE, hit |-> FALSE]
  ELSE IF fault = "copy_open" THEN [fs |-> fsys, raised |-> TRUE, hit |-> TRUE]
  ELSE IF fault = "copy_write" THEN [fs |-> put(fsys, r, FileNode(PartialData)), raised |-> TRUE, hit |-> TRUE]
  ELSE IF fault = "copy_stat" THEN [fs |-> put(fsys, r, node(fsys, s)), raised |-> TRUE, hit |-> TRUE]
  ELSE [fs |-> put(fsys, r, node(fsys, s)), raised |-> FALSE, hit |-> FALSE]

\* a removal that also removes the directory it emptied (os.removedirs)
remove_pruning(fsys, sp, fault) ==
  IF node(fsys, sp).kind # "file" THEN [fs |-> fsys, raised |-> TRUE, hit |-> FALSE]
  ELSE IF fault = "remove" THEN [fs |-> fsys, raised |-> TRUE, hit |-> TRUE]
  ELSE LET gone == put(fsys, sp, NoNode)
           up == dirname(sp)
           empty == \A q \in Children(up[2]) : node(gone, <<up[1], q>>).kind = "none"
       IN [fs |-> IF up[2] # <<>> /\ empty THEN put(gone, up, NoNode) ELSE gone,
           raised |-> FALSE, hit |-> FALSE]

\* os.remove(sp)
remove(fsys, sp, fault) ==
  IF node(fsys, sp).kind # "file" THEN [fs |-> fsys, raised |-> TRUE, hit |-> FALSE]
  ELSE IF fault = "remove" THEN [fs |-> fsys, raised |-> TRUE, hit |-> TRUE]
  ELSE [fs |-> put(fsys, sp, NoNode), raised |-> FALSE, hit |-> FALSE]

\* a loop body that creates the replica path itself as a directory
\* (makedirs of replica_path instead of its dirname); hashing it then raises
copy_item_mkdir_self(fsys, p, fault) ==
  LET md == makedirs(fsys, replica_path(p), fault = "makedirs") IN
  IF md.raised /\ node(md.fs, replica_path(p)).kind = "file"
  THEN [fs |-> fsys, raised |-> TRUE, hit |-> FALSE, events |-> <<>>, calls |-> <<>>]
  ELSE [fs |-> md.fs, raised |-> TRUE, hit |-> md.hit, events |-> <<>>, calls |-> <<>>]

\* a loop body that logs the copy before it knows the copy succeeded
copy_item_logs_first(fsys, p, fault) ==
  LET s == source_path(p)
      r == replica_path(p)
      md == makedirs(fsys, dirname(r), fault = "makedirs")
  IN
  IF md.raised THEN [fs |-> md.fs, raised |-> TRUE, hit |-> md.hit, events |-> <<>>, calls |-> <<>>]
  ELSE LET df == IF exists(md.fs, r) THEN are_files_different(md.fs, s, r, fault)
                 ELSE [raised |-> FALSE, hit |-> FALSE, value |-> TRUE]
       IN
       IF df.raised THEN [fs |-> md.fs, raised |-> TRUE, hit |-> df.hit, events |-> <<>>, calls |-> <<>>]
       ELSE IF ~df.value THEN [fs |-> md.fs, raised |-> FALSE, hit |-> FALSE, events |-> <<>>, calls |-> <<>>]
       ELSE LET cp == copy2(md.fs, s, r, fault) IN
            [fs |-> cp.fs, raised |-> cp.raised, hit |-> cp.hit,
             events |-> <<CopiedEvent(p)>>,
             calls |-> <<[op |-> "copy2", arg |-> p]>>]

\* the body of the loop of copy_files for the file at relative path p
copy_item(fsys, p, fault) ==
  LET s == source_path(p)
      r == replica_path(p)
      md == makedirs(fsys, dirname(r), fault = "makedirs")
  IN
  IF md.raised THEN [fs |-> md.fs, raised |-> TRUE, hit |-> md.hit, events |-> <<>>, calls |-> <<>>]
  ELSE LET df == IF exists(md.fs, r) THEN are_files_different(md.fs, s, r, fault)
                 ELSE [raised |-> FALSE, hit |-> FALSE, value |-> TRUE]
       IN
       IF df.raised THEN [fs |-> md.fs, raised |-> TRUE, hit |-> df.hit, events |-> <<>>, calls |-> <<>>]
       ELSE IF ~df.value THEN [fs |-> md.fs, raised |-> FALSE, hit |-> FALSE, events |-> <<>>, calls |-> <<>>]
       ELSE LET cp == copy2(md.fs, s, r, fault) IN
            [fs |-> cp.fs, raised |-> cp.raised, hit |-> cp.hit,
             events |-> IF cp.raised THEN <<>> ELSE <<CopiedEvent(p)>>,
             calls |-> <<[op |-> "copy2", arg |-> p]>>]

\* a loop body that removes every replica file, without looking at the source
remove_item_always(fsys, p, fault) ==
  LET rm == remove(fsys, replica_path(p), fault) IN
  [fs |-> rm.fs, raised |-> rm.raised, hit |-> rm.hit,
   events |-> IF rm.raised THEN <<>> ELSE <<DeletedEvent(p)>>,
   calls |-> <<[op |-> "remove", arg |-> p]>>]

\* the body of the loop of remove_files for the file at relative path p
remove_item(fsys, p, fault) ==
  IF exists(fsys, source_path(p))
  THEN [fs |-> fsys, raised |-> FALSE, hit |-> FALSE, events |-> <<>>, calls |-> <<>>]
  ELSE LET rm == remove(fsys, replica_path(p), fault) IN
       [fs |-> rm.fs, raised |-> rm.raised, hit |-> rm.hit,
        events |-> IF rm.raised THEN <<>> ELSE <<DeletedEvent(p)>>,
        calls |-> <<[op |-> "remove", arg |-> p]>>]

\* ------------------------------------------------------------ control
\* the two calls of synchronize_folders exchanged
PhaseOrderSwapped == <<"remove_files", "copy_files">>

\* synchronize_folders calls copy_files, then remove_files
PhaseOrder == <<"copy_files", "remove_files">>

Phases == { "copy_files", "remove_files" }

FirstPhase == PhaseOrder[1]

PhaseAfter(ph) == IF ph = PhaseOrder[1] THEN PhaseOrder[2] ELSE "sleep"

\* the folder a phase walks
WalkSide(ph) == IF ph = "copy_files" THEN "source" ELSE "replica"

\* except clauses too narrow to catch an OSError
PhaseCatchesNone(ph) == FALSE

\* `except Exception` of copy_files and of remove_files
PhaseCatches(ph) == TRUE

\* `except Exception` of synchronize_folders
SyncCatches == TRUE

\* handlers that let the exception through to main
after_phase_reraise(ph, raised, lg, pr) ==
  IF raised THEN [pc |-> "crashed", log |-> lg, printed |-> pr]
  ELSE LET nx == IF ph = "copy_files" THEN "remove_files" ELSE "sleep" IN
       [pc |-> nx, log |-> IF nx = "sleep" THEN Append(lg, [kind |-> "Completed", arg |-> <<>>]) ELSE lg, printed |-> pr]

\* where control goes when the loop of phase ph ends, normally or by an
\* exception, and what is logged and printed on the way
after_phase(ph, raised, lg, pr) ==
  IF raised /\ ~PhaseCatches(ph)
  THEN IF SyncCatches
       THEN [pc |-> "sleep", log |-> Append(lg, ErrorEvent("synchronize_folders")),
             printed |-> Append(pr, "synchronize_folders")]
       ELSE [pc |-> "crashed", log |-> lg, printed |-> pr]
  ELSE LET lg1 == IF raised THEN Append(lg, ErrorEvent(ph)) ELSE lg
           pr1 == IF raised THEN Append(pr, ph) ELSE pr
           nx == PhaseAfter(ph)
       IN [pc |-> nx, log |-> IF nx = "sleep" THEN Append(lg1, CompletedEvent) ELSE lg1, printed |-> pr1]

\* the stack of os.walk when control is at c
WalkStart(c) == IF c \in Phases THEN << <<>> >> ELSE <<>>

\* ------------------------------------------------------------ state machine
Init ==
  /\ pc = "main"
  /\ fs \in [Sides -> Trees]
  /\ stack = <<>>
  /\ files = <<>>
  /\ log = <<>>
  /\ printed = <<>>
  /\ calls = <<>>
  /\ errs = {}
  /\ cycle = 0
  /\ fails = 0
  /\ prevFailed = FALSE
  /\ fs0 = fs
  /\ fsStart = fs
  /\ interval \in 1 .. MaxInterval
  /\ slept = 0
  /\ changed = {}

\* main: the two os.path.exists checks, then the first call of
\* synchronize_folders
Main ==
  /\ pc = "main"
  /\ IF ~exists(fs, source_path(<<>>))
     THEN pc' = "exited" /\ printed' = Append(printed, "Source folder does not exist") /\ cycle' = cycle
     ELSE IF ~exists(fs, replica_path(<<>>))
     THEN pc' = "exited" /\ printed' = Append(printed, "Replica folder does not exist") /\ cycle' = cycle
     ELSE pc' = FirstPhase /\ printed' = printed /\ cycle' = 1
  /\ stack' = WalkStart(pc')
  /\ UNCHANGED <<fs, files, log, calls, errs, fails, prevFailed, fs0, fsStart, interval, slept, changed>>

\* os.walk takes the next directory from its stack and lists it; a listing
\* that fails is skipped without a trace (onerror is None)
WalkDir ==
  /\ pc \in Phases
  /\ files = <<>>
  /\ stack # <<>>
  /\ LET top == Head(stack)
         t == fs[WalkSide(pc)]
         nondirs == { q \in Children(top) : t[q].kind = "file" }
         subdirs == { q \in Children(top) : t[q].kind = "dir" }
     IN \E fault \in { "none", "scandir" } :
          IF t[top].kind # "dir"
          THEN /\ fault = "none"
               /\ stack' = Tail(stack)
               /\ files' = <<>>
               /\ errs' = errs \cup { <<"os.walk", top>> }
               /\ fails' = fails
          ELSE IF fault = "scandir"
          THEN /\ fails < MaxFail
               /\ stack' = Tail(stack)
               /\ files' = <<>>
               /\ errs' = errs \cup { <<"os.walk", top>> }
               /\ fails' = fails + 1
          ELSE /\ \E ford \in Orders(nondirs), dord \in Orders(subdirs) :
                    /\ files' = ford
                    /\ stack' = dord \o Tail(stack)
               /\ errs' = errs
               /\ fails' = fails
  /\ UNCHANGED <<pc, fs, log, printed, calls, cycle, prevFailed, fs0, fsStart, interval, slept, changed>>

\* one iteration of the loop over the files of a phase: item is the result
\* of the loop body; an exception ends the phase
Iterate(ph, item) ==
  /\ fs' = item.fs
  /\ calls' = calls \o item.calls
  /\ errs' = IF item.raised THEN errs \cup { <<ph, Head(files)>> } ELSE errs
  /\ fails' = IF item.hit THEN fails + 1 ELSE fails
  /\ IF item.raised
     THEN LET nx == after_phase(ph, TRUE, log \o item.events, printed) IN
          /\ pc' = nx.pc
          /\ log' = nx.log
          /\ printed' = nx.printed
          /\ files' = <<>>
          /\ stack' = WalkStart(nx.pc)
     ELSE /\ pc' = pc
          /\ log' = log \o item.events
          /\ printed' = printed
          /\ files' = Tail(files)
          /\ stack' = stack
  /\ UNCHANGED <<cycle, prevFailed, fs0, fsStart, interval, slept, changed>>

\* copy_files: the next file of the directory being walked
CopyFile ==
  /\ pc = "copy_files"
  /\ files # <<>>
  /\ \E fault \in { "none" } \cup CopyFaults :
       LET item == copy_item(fs, Head(files), fault) IN
       /\ fault # "none" => (fails < MaxFail /\ item.hit)
       /\ Iterate("copy_files", item)

\* remove_files: the next file of the directory being walked
RemoveFile ==
  /\ pc = "remove_files"
  /\ files # <<>>
  /\ \E fault \in { "none" } \cup RemoveFaults :
       LET item == remove_item(fs, Head(files), fault) IN
       /\ fault # "none" => (fails < MaxFail /\ item.hit)
       /\ Iterate("remove_files", item)

\* the walk of a phase is exhausted: the function returns
EndPhase ==
  /\ pc \in Phases
  /\ files = <<>>
  /\ stack = <<>>
  /\ LET nx == after_phase(pc, FALSE, log, printed) IN
     /\ pc' = nx.pc
     /\ log' = nx.log
     /\ printed' = nx.printed
     /\ stack' = WalkStart(nx.pc)
  /\ UNCHANGED <<fs, files, calls, errs, cycle, fails, prevFailed, fs0, fsStart, interval, slept, changed>>

\* the interval handed to time.sleep as it is, in minutes
sleep_seconds_raw(i) == i

\* the argument of time.sleep, in seconds, for an interval in minutes
sleep_seconds(i) == i * 60

\* time.sleep returns and the loop of main calls synchronize_folders again
\* on the file system fsys
NextCycle(fsys) ==
  /\ pc = "sleep"
  /\ pc' = FirstPhase
  /\ stack' = WalkStart(pc')
  /\ files' = <<>>
  /\ log' = <<>>
  /\ printed' = <<>>
  /\ calls' = <<>>
  /\ errs' = {}
  /\ cycle' = IF cycle < MaxCycles THEN cycle + 1 ELSE cycle
  /\ prevFailed' = (errs # {})
  /\ slept' = sleep_seconds(interval)
  /\ fs' = fsys
  /\ fsStart' = fsys
  /\ UNCHANGED <<fails, fs0, interval>>

\* the sleep passes with both trees left alone
Sleep ==
  /\ NextCycle(fs)
  /\ changed' = {}

\* the sleep passes while somebody rewrites one source file with other
\* content (the environment, not the program); only between counted cycles
SourceChange ==
  /\ cycle < MaxCycles
  /\ \E p \in Paths, c \in Contents :
       /\ fs.source[p].kind = "file"
       /\ fs.source[p].data # c
       /\ NextCycle(put(fs, source_path(p), FileNode(c)))
       /\ changed' = { p }

Next == Main \/ WalkDir \/ CopyFile \/ RemoveFile \/ EndPhase \/ Sleep

Spec == Init /\ [][Next]_vars

\* the program together with an environment that edits the source
EnvNext == Next \/ SourceChange

EnvSpec == Init /\ [][EnvNext]_vars

\* the initial states with a single file content and interval
LiveInit == Init /\ interval = 1 /\ \A sd \in Sides : \A p \in Paths : fs[sd][p].data <= 1

\* the process is always scheduled: it is never suspended for ever
LiveSpec == LiveInit /\ [][Next]_vars /\ WF_vars(Next)

TypeOK ==
  /\ pc \in { "main", "exited", "copy_files", "remove_files", "sleep", "crashed" }
  /\ \A sd \in Sides : WellFormed(fs[sd])
  /\ cycle \in 0 .. MaxCycles
  /\ fails \in 0 .. MaxFail

\* ------------------------------------------------------------ properties
Count(lg, e) == Cardinality({ i \in 1 .. Len(lg) : lg[i] = e })

HasKind(lg, k) == \E i \in 1 .. Len(lg) : lg[i].kind = k

IsFile(t, p) == t[p].kind = "file"

\* the cycle in progress began with a replica that lacks the source file p
\* or holds other content at p
NeedsCopy(p) ==
  /\ IsFile(fs.source, p)
  /\ \/ fsStart.replica[p].kind = "none"
     \/ IsFile(fsStart.replica, p) /\ fsStart.replica[p].data # fs.source[p].data

\* the cycle in progress began with identical files at p
Identical(p) == IsFile(fs.source, p) /\ fsStart.replica[p] = fs.source[p]

\* the cycle in progress began with a replica file at p and no source file at p
ReplicaOnly(p) == IsFile(fsStart.replica, p) /\ ~IsFile(fs.source, p)

CycleEnded == pc = "sleep"

\* some file system operation failed in the cycle in progress, logged or not
failed == errs # {}

\* a directory listing of os.walk failed in the cycle in progress
unlisted == \E e \in errs : e[1] = "os.walk"

RootsAreDirs == fs0.source[<<>>].kind = "dir" /\ fs0.replica[<<>>].kind = "dir"

InLoop == pc \notin { "main", "exited" }

\* C1 (as claimed): when a cycle has ended and no file system operation
\* failed in it, the files of the replica, path by path and content by
\* content, are exactly the files of the source.
C1_Convergence ==
  (CycleEnded /\ ~failed) => FileMap(fs.replica) = FileMap(fs.source)

\* C2: the source tree is at every moment what it was before the first cycle,
\* whatever failed on the way.
C2_NoSourceMutation == fs.source = fs0.source

\* a cycle that failed, and changed the replica, has ended
C2_Witness == CycleEnded /\ failed /\ cycle = MaxCycles /\ fs.replica # fs0.replica /\ HasKind(log, "Error")

\* C3 (as claimed): at the end of a cycle between two directories in which
\* every directory listing succeeded, every source file that was missing
\* from the replica, or differed from it, and whose own copy did not fail,
\* has been copied with exactly one Copied event; every file that was
\* identical has no Copied event and was not handed to copy2.
C3_CopyCorrectness ==
  (CycleEnded /\ RootsAreDirs /\ ~unlisted) =>
    \A p \in Paths :
      /\ (NeedsCopy(p) /\ <<"copy_files", p>> \notin errs) =>
           /\ Count(log, CopiedEvent(p)) = 1
           /\ fs.replica[p] = fs.source[p]
      /\ Identical(p) =>
           /\ Count(log, CopiedEvent(p)) = 0
           /\ Count(calls, [op |-> "copy2", arg |-> p]) = 0

\* C4 (as claimed): at the end of a cycle in which nothing failed, every file
\* that was in the replica with no file at its path in the source is gone
\* and has exactly one Deleted event; a path that held no such file has no
\* Deleted event (so a later cycle logs none for a file already removed).
C4_DeletionCorrectness ==
  (CycleEnded /\ ~failed) =>
    \A p \in Paths :
      IF ReplicaOnly(p)
      THEN ~IsFile(fs.replica, p) /\ Count(log, DeletedEvent(p)) = 1
      ELSE Count(log, DeletedEvent(p)) = 0

\* C5 (as claimed): at the end of a cycle between two directories in which
\* every directory listing succeeded, every file whose own handling raised
\* has its phase's Error event in the log, and every other file that
\* needed copying has been copied and every other replica file without a
\* source path has been deleted, in this same cycle.
C5_PerItemIsolation ==
  (CycleEnded /\ RootsAreDirs /\ ~unlisted) =>
    /\ \A e \in errs : Count(log, ErrorEvent(e[1])) >= 1
    /\ \A p \in Paths :
         /\ (NeedsCopy(p) /\ <<"copy_files", p>> \notin errs
               /\ (\E e \in errs : e[1] = "copy_files"))
              => fs.replica[p] = fs.source[p]
         /\ (IsFile(fsStart.replica, p) /\ ~exists(fs, source_path(p)) /\ <<"remove_files", p>> \notin errs
               /\ (\E e \in errs : e[1] = "remove_files"))
              => ~IsFile(fs.replica, p)

\* C6: in a cycle that follows a cycle in which nothing failed, no copy2 and
\* no remove is called, no Copied and no Deleted event is logged and the
\* replica stays what it was when the cycle began.
C6_Idempotence ==
  (cycle >= 2 /\ ~prevFailed) =>
    /\ calls = <<>>
    /\ ~HasKind(log, "Copied")
    /\ ~HasKind(log, "Deleted")
    /\ fs.replica = fsStart.replica

\* a second cycle has ended after a first one that had work to do and did it
C6_Witness ==
  /\ CycleEnded /\ cycle >= 2 /\ ~prevFailed
  /\ fsStart.replica # fs0.replica
  /\ FileMap(fs.source) # {}

\* C7: once in the loop, whatever fails, the cycle in progress ends in the
\* sleep and the sleep is followed by the next cycle, again and again.
C7_LoopResilience ==
  /\ InLoop ~> (pc = "sleep")
  /\ (pc = "sleep") ~> (pc = "copy_files" /\ stack = WalkStart("copy_files") /\ log = <<>>)

\* a cycle begins after a cycle in which an operation failed
C7_Witness == pc = "copy_files" /\ cycle >= 2 /\ prevFailed /\ log = <<>> /\ fails >= 1

\* C8 (as claimed): when a root is missing or is not a directory at startup,
\* main never enters the loop, nothing in either tree changes, nothing is
\* logged, and main exits with a message.
C8_StartupValidation ==
  (fs0.source[<<>>].kind # "dir" \/ fs0.replica[<<>>].kind # "dir") =>
    /\ pc \in { "main", "exited" }
    /\ fs = fs0
    /\ log = <<>>
    /\ pc = "exited" => printed # <<>>

\* C9 (as claimed): at the end of a cycle the Completed event is in the log
\* exactly when no phase was ended by an error.
C9_CompletionEvent ==
  CycleEnded => (Count(log, CompletedEvent) = 1 <=> ~HasKind(log, "Error"))

\* C10: within a cycle no Copied event follows a Deleted event, no copy2
\* call follows a remove call, and while copy_files runs nothing has been
\* removed or logged as deleted in this cycle.
C10_CopyBeforeDelete ==
  /\ \A i, j \in 1 .. Len(log) : (i < j /\ log[i].kind = "Deleted") => log[j].kind # "Copied"
  /\ \A i, j \in 1 .. Len(calls) : (i < j /\ calls[i].op = "remove") => calls[j].op # "copy2"
  /\ pc = "copy_files" => (~HasKind(log, "Deleted") /\ \A i \in 1 .. Len(calls) : calls[i].op # "remove")

\* a cycle that copied and deleted has ended
C10_Witness == CycleEnded /\ HasKind(log, "Copied") /\ HasKind(log, "Deleted")

\* the print of the except clause of function fn reached the console
Printed(fn) == \E i \in 1 .. Len(printed) : printed[i] = fn

\* C11 (as claimed): at the end of a cycle between two directories, every
\* file system operation that failed in the cycle, a directory listing of
\* the walk included, has an Error event in the log and a message on the
\* console.
C11_NoSilentError ==
  (CycleEnded /\ RootsAreDirs) =>
    \A e \in errs :
      IF e[1] \in Phases
      THEN Count(log, ErrorEvent(e[1])) >= 1 /\ Printed(e[1])
      ELSE HasKind(log, "Error") /\ printed # <<>>

\* C12 (as claimed): when exactly one source file was rewritten during the
\* sleep that followed a cycle in which nothing failed, then at the end of
\* the next cycle, if every listing succeeded and the handling of that file
\* itself did not fail, the log holds exactly one Copied event, for that
\* file, and no Deleted event, and the replica file has the new content.
C12_ChangePropagation ==
  (CycleEnded /\ ~prevFailed /\ changed # {} /\ ~unlisted) =>
    \A p \in changed :
      <<"copy_files", p>> \notin errs =>
        /\ Count(log, CopiedEvent(p)) = 1
        /\ \A q \in Paths \ { p } : Count(log, CopiedEvent(q)) = 0
        /\ ~HasKind(log, "Deleted")
        /\ fs.replica[p] = fs.source[p]

\* C13: a step that logs "File copied: p" is a step in which copy2 was called
\* for p and left the replica file at p equal to the source file at p; a step
\* that logs "File deleted: p" is a step in which remove was called for p
\* and left no file at p in the replica; a step in which the handling of a
\* file raised logs no Copied and no Deleted event.
C13_EventsOnlyOnSuccess ==
  [][\A p \in Paths :
       /\ Count(log', CopiedEvent(p)) > Count(log, CopiedEvent(p)) =>
            /\ calls' = Append(calls, [op |-> "copy2", arg |-> p])
            /\ IsFile(fs'.replica, p)
            /\ fs'.replica[p] = fs'.source[p]
       /\ Count(log', DeletedEvent(p)) > Count(log, DeletedEvent(p)) =>
            /\ calls' = Append(calls, [op |-> "remove", arg |-> p])
            /\ IsFile(fs.replica, p)
            /\ ~exists(fs', replica_path(p))
       /\ (\E ph \in Phases : <<ph, p>> \in errs' \ errs) =>
            /\ Count(log', CopiedEvent(p)) = Count(log, CopiedEvent(p))
            /\ Count(log', DeletedEvent(p)) = Count(log, DeletedEvent(p))
    ]_vars

\* a cycle has ended in which one file was copied and logged and the copy
\* of another file failed inside copy2
C13_Witness ==
  /\ CycleEnded /\ HasKind(log, "Copied")
  /\ \E e \in errs : e[1] = "copy_files" /\ Count(calls, [op |-> "copy2", arg |-> e[2]]) = 1

\* C14: control goes from the copy phase to the delete phase, from the delete
\* phase to the sleep and from the sleep to the copy phase of the next
\* cycle, never otherwise; the step that leaves the sleep is the only one
\* that sleeps, it sleeps interval * 60 seconds, and it starts the cycle
\* that follows the one that ended (the counter saturates at MaxCycles).
C14_SchedulerSequencing ==
  [][/\ pc = "copy_files" => pc' \in { "copy_files", "remove_files" }
     /\ pc = "remove_files" => pc' \in { "remove_files", "sleep" }
     /\ pc = "sleep" =>
          /\ pc' = "copy_files"
          /\ slept' = interval * 60
          /\ cycle' = IF cycle < MaxCycles THEN cycle + 1 ELSE cycle
     /\ (pc' = "copy_files" /\ pc # "copy_files") => pc \in { "main", "sleep" }
     /\ pc # "sleep" => slept' = slept
    ]_vars

\* the second cycle has begun after a sleep of the longest interval
C14_Witness ==
  /\ pc = "copy_files" /\ cycle = 2 /\ stack = WalkStart("copy_files")
  /\ interval = MaxInterval /\ slept = interval * 60

\* C15: no step removes a directory from the replica.
C15_NoDirectoryPruning == [][Dirs(fs.replica) \subseteq Dirs(fs'.replica)]_vars

\* remove_files deleted the last file of a replica directory, which is
\* still there
C15_Witness ==
  \E p \in Paths :
    /\ Count(log, DeletedEvent(p)) = 1
    /\ Parent(p) # <<>>
    /\ fs.replica[Parent(p)].kind = "dir"
    /\ \A q \in Children(Parent(p)) : fs.replica[q].kind = "none"

\* q is a directory above the path p
IsAncestor(q, p) == Len(q) < Len(p) /\ SubSeq(p, 1, Len(q)) = q

\* copy_files has just returned and remove_files has not begun its walk
CopyPhaseEnded == pc = "remove_files" /\ stack = WalkStart("remove_files")

\* C16: when the copy phase has ended and nothing failed in it, every
\* directory above a source file is a directory of the replica; and at any
\* moment a replica directory that was not there when the cycle began lies
\* above some source file, so an empty source directory is never created.
C16_DirectoryCreation ==
  /\ (CopyPhaseEnded /\ ~failed) =>
       \A p \in Paths : IsFile(fs.source, p) =>
         \A q \in Paths : IsAncestor(q, p) => fs.replica[q].kind = "dir"
  /\ \A q \in Dirs(fs.replica) \ Dirs(fsStart.replica) :
       \E p \in Paths : IsFile(fs.source, p) /\ IsAncestor(q, p)

\* a clean copy phase created a replica directory for a source file and
\* left an empty source directory without a counterpart
C16_Witness ==
  /\ CopyPhaseEnded /\ ~failed
  /\ Dirs(fs.replica) \ Dirs(fsStart.replica) # {}
  /\ \E q \in Dirs(fs.source) : fs.replica[q].kind = "none"

\* C17: a step removes a replica file only in remove_files and only when
\* nothing exists at its path in the source; within a cycle no path has
\* both a copy2 call and a remove call, nor both a Copied and a Deleted
\* event.
C17_DeleteSafety ==
  [][\A p \in Paths :
       /\ (IsFile(fs.replica, p) /\ ~IsFile(fs'.replica, p)) =>
            (pc = "remove_files" /\ ~exists(fs, source_path(p)))
       /\ ~(Count(log', CopiedEvent(p)) >= 1 /\ Count(log', DeletedEvent(p)) >= 1)
       /\ ~(Count(calls', [op |-> "copy2", arg |-> p]) >= 1 /\ Count(calls', [op |-> "remove", arg |-> p]) >= 1)
    ]_vars

\* a cycle has ended that copied a file, deleted another and kept a replica
\* file whose path exists in the source
C17_Witness ==
  /\ CycleEnded /\ HasKind(log, "Copied") /\ HasKind(log, "Deleted")
  /\ \E p \in Paths : Count(log, CopiedEvent(p)) = 1 /\ IsFile(fs.replica, p) /\ exists(fs, source_path(p))

\* C18 (as claimed): a step of the copy phase removes no file from the
\* replica and changes the content of a replica file only to the content of
\* the source file at that path; a step of the delete phase creates no file
\* and no directory and changes no file that it leaves in place.
C18_PhaseFrame ==
  [][/\ pc = "copy_files" =>
          \A p \in Paths : IsFile(fs.replica, p) =>
            /\ IsFile(fs'.replica, p)
            /\ fs'.replica[p] # fs.replica[p] => fs'.replica[p] = fs.source[p]
     /\ pc = "remove_files" =>
          /\ Dirs(fs'.replica) = Dirs(fs.replica)
          /\ \A p \in Paths : IsFile(fs'.replica, p) => fs'.replica[p] = fs.replica[p]
    ]_vars

\* C19: the step that ends copy_files, by exhausting the walk or by an
\* exception, enters remove_files at the start of its walk; and when a cycle
\* ends in which copy_files was ended by an error, while every listing and
\* every removal succeeded, each replica file with nothing at its path in
\* the source is gone and has its Deleted event.
C19_DeletePhaseAlwaysRuns ==
  [][/\ (pc = "copy_files" /\ pc' # "copy_files") =>
          (pc' = "remove_files" /\ stack' = WalkStart("remove_files") /\ files' = <<>>)
     /\ (pc # "sleep" /\ pc' = "sleep" /\ (\E e \in errs' : e[1] = "copy_files")
           /\ (\A e \in errs' : e[1] = "copy_files")) =>
          \A p \in Paths : (IsFile(fsStart.replica, p) /\ ~exists(fs', source_path(p))) =>
            (~IsFile(fs'.replica, p) /\ Count(log', DeletedEvent(p)) = 1)
    ]_vars

\* a cycle has ended in which copy_files was ended by an error and
\* remove_files deleted a file
C19_Witness ==
  /\ CycleEnded /\ HasKind(log, "Deleted")
  /\ \E e \in errs : e[1] = "copy_files"
  /\ Count(log, ErrorEvent("copy_files")) = 1

====
